---------------------------- MODULE Spec2Model ----------------------------
(***************************************************************************)
(* Model of gislih24/CPP_PA3: an infix expression parser (tokenizer and    *)
(* shunting-yard tree builder, src/AST.cpp), its tree evaluator            *)
(* (Node::get_value, src/AST.h and src/AST.cpp) and the preorder codec     *)
(* (write_pre, eval_pre, run_eval_mode, src/main.cpp).                     *)
(*                                                                         *)
(* Text is a sequence of one-character strings.  int64_t is scaled to      *)
(* IntBits bits: every limit of the code is written in terms of INT64_MIN, *)
(* INT64_MAX and UINT64_MAX, which are derived from IntBits.  A C++        *)
(* exception is a result record whose err field is the exception message;  *)
(* err = NoError is a normal return.                                       *)
(***************************************************************************)
EXTENDS Integers, Sequences, FiniteSets, TLC

VARIABLES
    build,      \* what the build fixes: Node::get_value body, overflow, argument order
    pc,         \* position of the driver of the current specification
    input,      \* the expression text handed to tokenize / parse
    tokens_,    \* AST::tokens_
    root_,      \* AST::root_ (NullNode when empty)
    result,     \* outcome of the last AST call
    tree,       \* a Node tree handed to get_value / write_pre
    bindings,   \* variable bindings (name -> value)
    file,       \* the text of the preorder stream
    pre,        \* outcome of write_pre
    decoded,    \* outcome of eval_pre
    run,        \* outcome of run_eval_mode
    history,    \* the calls made on the AST object so far, with their outcomes
    build_value_stack,     \* add_tokens_to_tree: value_stack (top last)
    build_operator_stack,  \* add_tokens_to_tree: operator_stack (top last)
    token_index            \* add_tokens_to_tree: position of the loop in tokens_

vars == <<build, pc, input, tokens_, root_, result, tree, bindings, file, pre,
          decoded, run, history, build_value_stack, build_operator_stack,
          token_index>>

-----------------------------------------------------------------------------
(* Bounds of the model *)

\* width of the scaled int64_t
IntBits == 5
\* longest expression text drawn exhaustively
MaxLen == 5
\* most tokens in a preorder stream drawn exhaustively
MaxTokens == 4
\* most digits of an integer literal drawn exhaustively
MaxDigits == 2
\* most calls made on one AST object
MaxCalls == 4
\* most lines of a variable-values file
MaxLines == 3

-----------------------------------------------------------------------------
(* Integers *)

RECURSIVE Pow2(_)
Pow2(n) == IF n = 0 THEN 1 ELSE 2 * Pow2(n - 1)

INT64_MAX == Pow2(IntBits - 1) - 1
INT64_MIN == 0 - Pow2(IntBits - 1)
UINT64_MAX == Pow2(IntBits) - 1
Int64 == INT64_MIN .. INT64_MAX

Fits(m) == m >= INT64_MIN /\ m <= INT64_MAX

\* two's complement value of m reduced modulo 2^IntBits
Wrap(m) == ((m - INT64_MIN) % Pow2(IntBits)) + INT64_MIN

Abs(m) == IF m < 0 THEN 0 - m ELSE m

\* C++ integer division: the quotient truncated toward zero (r # 0)
TruncDiv(l, r) ==
    LET q == Abs(l) \div Abs(r)
    IN  IF (l < 0) = (r < 0) THEN q ELSE 0 - q

-----------------------------------------------------------------------------
(* Results and exceptions *)

NoError == "ok"
Ok(v) == [err |-> NoError, value |-> v]
Throw(msg) == [err |-> msg, value |-> 0]
IsOk(r) == r.err = NoError

\* a process killed by a trapping signed overflow: no exception, no return
Trap == "signal: signed integer overflow"

\* a process killed by the read through a null pointer: no exception, no
\* return
Segv == "signal: segmentation fault"

-----------------------------------------------------------------------------
(* Characters *)

Digits == <<"0", "1", "2", "3", "4", "5", "6", "7", "8", "9">>
DigitSet == {Digits[k] : k \in 1..10}
LowerSet == {"a", "b", "c", "d", "e", "f", "g", "h", "i", "j", "k", "l", "m",
             "n", "o", "p", "q", "r", "s", "t", "u", "v", "w", "x", "y", "z"}
\* the vertical tab, character code 11
VerticalTab == ""
\* the characters std::isspace accepts in the C locale
SpaceSet == {" ", "\t", "\n", VerticalTab, "\f", "\r"}

isdigit(c) == c \in DigitSet
islower(c) == c \in LowerSet
isspace(c) == c \in SpaceSet

DigitValue(c) == (CHOOSE k \in 1..10 : Digits[k] = c) - 1


-----------------------------------------------------------------------------
(* Checked arithmetic (src/AST.cpp) *)

checked_add(left, right) ==
    IF Fits(left + right) THEN Ok(left + right) ELSE Throw("overflow in addition")

checked_sub(left, right) ==
    IF Fits(left - right) THEN Ok(left - right) ELSE Throw("overflow in subtraction")

checked_mul(left, right) ==
    IF Fits(left * right) THEN Ok(left * right)
    ELSE Throw("overflow in multiplication")

checked_div(left, right) ==
    IF right = 0 THEN Throw("division by zero")
    ELSE IF left = INT64_MIN /\ right = 0 - 1 THEN Throw("overflow in division")
    ELSE Ok(TruncDiv(left, right))

\* The built-in operators + - * on int64_t, m being the mathematical result:
\* exact when it fits; signed overflow is undefined behaviour, which the
\* build b turns into a wrapped value or into a trap.
builtin_arith(b, m) ==
    IF Fits(m) THEN Ok(m)
    ELSE IF b.overflow = "wrap" THEN Ok(Wrap(m))
    ELSE Throw(Trap)

-----------------------------------------------------------------------------
(* Number and name scanning (src/AST.cpp) *)

\* first position at or after i that holds no digit
RECURSIVE DigitRunEnd(_, _)
DigitRunEnd(s, i) ==
    IF i <= Len(s) /\ isdigit(s[i]) THEN DigitRunEnd(s, i + 1) ELSE i

\* value of the digits s[i..j-1], saturated just above UINT64_MAX
RECURSIVE DigitRunValue(_, _, _, _)
DigitRunValue(s, i, j, acc) ==
    IF i >= j THEN acc
    ELSE LET next == acc * 10 + DigitValue(s[i])
         IN  DigitRunValue(s, i + 1, j,
                           IF next > UINT64_MAX THEN UINT64_MAX + 1 ELSE next)

\* std::from_chars into int64_t, which takes a minus sign before the digits,
\* then the three error tests
parse_number(input_string, index) ==
    LET negative == index <= Len(input_string) /\ input_string[index] = "-"
        first == IF negative THEN index + 1 ELSE index
        end == DigitRunEnd(input_string, first)
        magnitude == DigitRunValue(input_string, first, end, 0)
    IN  IF end = first
        THEN [err |-> "missing digits in number", value |-> 0, index |-> index]
        ELSE IF magnitude > (IF negative THEN INT64_MAX + 1 ELSE INT64_MAX)
        THEN [err |-> "integer literal overflow", value |-> 0, index |-> index]
        ELSE [err |-> NoError,
              value |-> IF negative THEN 0 - magnitude ELSE magnitude,
              index |-> end]

\* parse_negative_number without the extra magnitude unit
parse_negative_number_symmetric(input_string, index) ==
    LET end == DigitRunEnd(input_string, index)
        magnitude == DigitRunValue(input_string, index, end, 0)
    IN  IF end = index
        THEN [err |-> "missing digits in number", value |-> 0, index |-> index]
        ELSE IF magnitude > INT64_MAX
        THEN [err |-> "integer literal overflow", value |-> 0, index |-> index]
        ELSE [err |-> NoError, value |-> 0 - magnitude, index |-> end]

\* std::from_chars into uint64_t, the range test and the negation
parse_negative_number(input_string, index) ==
    LET max_negative_magnitude == INT64_MAX + 1
        end == DigitRunEnd(input_string, index)
        magnitude == DigitRunValue(input_string, index, end, 0)
    IN  IF end = index
        THEN [err |-> "missing digits in number", value |-> 0, index |-> index]
        ELSE IF magnitude > UINT64_MAX
        THEN [err |-> "integer literal overflow", value |-> 0, index |-> index]
        ELSE IF magnitude > max_negative_magnitude
        THEN [err |-> "integer literal overflow", value |-> 0, index |-> index]
        ELSE IF magnitude = max_negative_magnitude
        THEN [err |-> NoError, value |-> INT64_MIN, index |-> end]
        ELSE [err |-> NoError, value |-> 0 - magnitude, index |-> end]

RECURSIVE LowerRunEnd(_, _)
LowerRunEnd(s, i) ==
    IF i <= Len(s) /\ islower(s[i]) THEN LowerRunEnd(s, i + 1) ELSE i

parse_variable_name(input_string, index) ==
    LET end == LowerRunEnd(input_string, index)
    IN  [name |-> SubSeq(input_string, index, end - 1), index |-> end]

-----------------------------------------------------------------------------
(* Tokens and the tokenizer (src/AST.h, src/AST.cpp) *)

TokenType == {"Number", "Variable", "Plus", "Minus", "Mult", "Div",
              "LParen", "RParen", "End"}

Token(type, value, variable_name) ==
    [type |-> type, value |-> value, variable_name |-> variable_name]

Back(seq) == seq[Len(seq)]

RECURSIVE SkipSpace(_, _)
SkipSpace(s, i) ==
    IF i <= Len(s) /\ isspace(s[i]) THEN SkipSpace(s, i + 1) ELSE i

handle_unary_minus(input_string, i, tokens) ==
    LET lookahead == SkipSpace(input_string, i + 1)
    IN  IF lookahead > Len(input_string)
        THEN [err |-> "missing operand after unary minus", i |-> i, tokens |-> tokens]
        ELSE IF isdigit(input_string[lookahead])
        THEN LET n == parse_negative_number(input_string, lookahead)
             IN  IF n.err # NoError
                 THEN [err |-> n.err, i |-> lookahead, tokens |-> tokens]
                 ELSE [err |-> NoError, i |-> n.index,
                       tokens |-> Append(tokens, Token("Number", n.value, <<>>))]
        ELSE IF ~islower(input_string[lookahead])
                /\ input_string[lookahead] # "("
                /\ input_string[lookahead] # "-"
        THEN [err |-> "missing operand after unary minus", i |-> i, tokens |-> tokens]
        ELSE [err |-> NoError, i |-> i + 1,
              tokens |-> tokens \o <<Token("Number", 0 - 1, <<>>),
                                     Token("Mult", 0, <<>>)>>]

is_operand_valid(input_string, i, tokens) ==
    LET curr_char == input_string[i]
    IN  IF isdigit(curr_char)
        THEN LET n == parse_number(input_string, i)
             IN  IF n.err # NoError
                 THEN [err |-> n.err, found |-> FALSE, i |-> i, tokens |-> tokens]
                 ELSE [err |-> NoError, found |-> TRUE, i |-> n.index,
                       tokens |-> Append(tokens, Token("Number", n.value, <<>>))]
        ELSE IF islower(curr_char)
        THEN LET v == parse_variable_name(input_string, i)
             IN  [err |-> NoError, found |-> TRUE, i |-> v.index,
                  tokens |-> Append(tokens, Token("Variable", 0, v.name))]
        ELSE IF curr_char = "("
        THEN [err |-> NoError, found |-> TRUE, i |-> i + 1,
              tokens |-> Append(tokens, Token("LParen", 0, <<>>))]
        ELSE [err |-> NoError, found |-> FALSE, i |-> i, tokens |-> tokens]

handle_operator_or_close_paren(input_string, i, tokens) ==
    LET c == input_string[i]
        type == IF c = "+" THEN "Plus"
                ELSE IF c = "-" THEN "Minus"
                ELSE IF c = "*" THEN "Mult"
                ELSE IF c = "/" THEN "Div"
                ELSE IF c = ")" THEN "RParen"
                ELSE "none"
    IN  IF type = "none"
        THEN [found |-> FALSE, i |-> i, tokens |-> tokens]
        ELSE [found |-> TRUE, i |-> i + 1,
              tokens |-> Append(tokens, Token(type, 0, <<>>))]

\* [[noreturn]]: the message of the exception it throws
validate_expected_operand(input_string, i) ==
    IF input_string[i] = ")" THEN "missing operand before ')'"
    ELSE IF input_string[i] \in {"+", "*", "/"} THEN "missing operand"
    ELSE "invalid character in expression"

\* the scanning loop of AST::tokenize and the checks after it; tokens is
\* tokens_ as the call leaves it, also when it throws
RECURSIVE tokenize_loop(_, _, _, _, _)
tokenize_loop(input_string, i, is_awaiting_operand, saw_non_whitespace, tokens) ==
    IF i > Len(input_string)
    THEN IF ~saw_non_whitespace
         THEN [err |-> "empty expression", tokens |-> tokens]
         ELSE IF is_awaiting_operand
         THEN [err |-> "expression ends with operator", tokens |-> tokens]
         ELSE [err |-> NoError, tokens |-> Append(tokens, Token("End", 0, <<>>))]
    ELSE IF isspace(input_string[i])
    THEN tokenize_loop(input_string, i + 1, is_awaiting_operand,
                       saw_non_whitespace, tokens)
    ELSE IF input_string[i] = "-" /\ is_awaiting_operand
    THEN LET u == handle_unary_minus(input_string, i, tokens)
         IN  IF u.err # NoError
             THEN [err |-> u.err, tokens |-> u.tokens]
             ELSE tokenize_loop(input_string, u.i, Back(u.tokens).type = "Mult",
                                TRUE, u.tokens)
    ELSE IF is_awaiting_operand
    THEN LET o == is_operand_valid(input_string, i, tokens)
         IN  IF o.err # NoError
             THEN [err |-> o.err, tokens |-> o.tokens]
             ELSE IF o.found
             THEN tokenize_loop(input_string, o.i, Back(o.tokens).type = "LParen",
                                TRUE, o.tokens)
             ELSE [err |-> validate_expected_operand(input_string, i),
                   tokens |-> tokens]
    ELSE LET h == handle_operator_or_close_paren(input_string, i, tokens)
         IN  IF h.found
             THEN tokenize_loop(input_string, h.i, Back(h.tokens).type # "RParen",
                                TRUE, h.tokens)
             ELSE IF isdigit(input_string[i]) \/ islower(input_string[i])
                     \/ input_string[i] = "("
             THEN [err |-> "missing operator between operands", tokens |-> tokens]
             ELSE [err |-> "invalid character in expression", tokens |-> tokens]

\* tokenize whose scan starts as if an operand had just been read
tokenize_awaits_operator(input_string) ==
    tokenize_loop(input_string, 1, FALSE, FALSE, <<>>)

\* AST::tokenize: tokens_.clear(), then the scan from the first character
tokenize(input_string) == tokenize_loop(input_string, 1, TRUE, FALSE, <<>>)

-----------------------------------------------------------------------------
(* Nodes (src/AST.h, constructors in src/AST.cpp) *)

NodeType == {"Number", "Variable", "Add", "Sub", "Mult", "Div"}

\* a null std::unique_ptr<Node>
NullNode == [type |-> "Null"]

NumberNode(v) ==
    [type |-> "Number", value |-> v, variable_name |-> <<>>,
     left |-> NullNode, right |-> NullNode]

VariableNode(variable) ==
    [type |-> "Variable", value |-> 0, variable_name |-> variable,
     left |-> NullNode, right |-> NullNode]

OperatorNode(t, l, r) ==
    [type |-> t, value |-> 0, variable_name |-> <<>>, left |-> l, right |-> r]

-----------------------------------------------------------------------------
(* Shunting-yard tree builder (src/AST.cpp) *)

get_precedence(t) ==
    IF t \in {"Div", "Mult"} THEN 2
    ELSE IF t \in {"Plus", "Minus"} THEN 1
    ELSE 0 - 1

\* the node type, or "throw" for the ASTException of the default case
token_type_to_node_type(t) ==
    IF t = "Plus" THEN "Add"
    ELSE IF t = "Minus" THEN "Sub"
    ELSE IF t = "Mult" THEN "Mult"
    ELSE IF t = "Div" THEN "Div"
    ELSE "throw"

\* is_arithmetic_operator that leaves Div out
is_arithmetic_operator_without_div(t) == t \in {"Plus", "Minus", "Mult"}

is_arithmetic_operator(t) == t \in {"Plus", "Minus", "Mult", "Div"}

Pop(stack) == SubSeq(stack, 1, Len(stack) - 1)

\* apply_top_operator that gives the new node no left child
apply_top_operator_one_child(value_stack, operator_stack) ==
    IF operator_stack = <<>>
    THEN [err |-> "missing operator", value_stack |-> value_stack,
          operator_stack |-> operator_stack]
    ELSE IF Len(value_stack) < 2
    THEN [err |-> "missing operand", value_stack |-> value_stack,
          operator_stack |-> operator_stack]
    ELSE LET type == token_type_to_node_type(Back(operator_stack))
         IN  [err |-> IF type = "throw" THEN "unexpected operator token" ELSE NoError,
              value_stack |->
                  Append(Pop(Pop(value_stack)),
                         OperatorNode(type, NullNode, Back(value_stack))),
              operator_stack |-> Pop(operator_stack)]

\* stacks are sequences whose last element is the top
apply_top_operator(value_stack, operator_stack) ==
    IF operator_stack = <<>>
    THEN [err |-> "missing operator", value_stack |-> value_stack,
          operator_stack |-> operator_stack]
    ELSE IF Len(value_stack) < 2
    THEN [err |-> "missing operand", value_stack |-> value_stack,
          operator_stack |-> operator_stack]
    ELSE LET current_operator == Back(operator_stack)
             right_hand_side_value == Back(value_stack)
             left_hand_side_value == Back(Pop(value_stack))
             type == token_type_to_node_type(current_operator)
         IN  IF type = "throw"
             THEN [err |-> "unexpected operator token",
                   value_stack |-> Pop(Pop(value_stack)),
                   operator_stack |-> Pop(operator_stack)]
             ELSE [err |-> NoError,
                   value_stack |->
                       Append(Pop(Pop(value_stack)),
                              OperatorNode(type, left_hand_side_value,
                                           right_hand_side_value)),
                   operator_stack |-> Pop(operator_stack)]

\* handle_operator_pops with > for >=: equal precedence no longer pops
handle_operator_pops_strict(top, op_token_type) ==
    top # "LParen" /\ get_precedence(top) > get_precedence(op_token_type)

\* the test of the while loop of handle_operator
handle_operator_pops(top, op_token_type) ==
    top # "LParen" /\ get_precedence(top) >= get_precedence(op_token_type)

RECURSIVE handle_operator(_, _, _)
handle_operator(op_token_type, value_stack, operator_stack) ==
    IF operator_stack # <<>>
       /\ handle_operator_pops(Back(operator_stack), op_token_type)
    THEN LET a == apply_top_operator(value_stack, operator_stack)
         IN  IF a.err # NoError THEN a
             ELSE handle_operator(op_token_type, a.value_stack, a.operator_stack)
    ELSE [err |-> NoError, value_stack |-> value_stack,
          operator_stack |-> Append(operator_stack, op_token_type)]

\* close_paren without the test for an operator stack that ran empty
RECURSIVE close_paren_unchecked(_, _)
close_paren_unchecked(value_stack, operator_stack) ==
    IF operator_stack # <<>> /\ Back(operator_stack) # "LParen"
    THEN LET a == apply_top_operator(value_stack, operator_stack)
         IN  IF a.err # NoError THEN a
             ELSE close_paren_unchecked(a.value_stack, a.operator_stack)
    ELSE [err |-> NoError, value_stack |-> value_stack,
          operator_stack |-> IF operator_stack = <<>> THEN <<>>
                             ELSE Pop(operator_stack)]

\* the RParen branch: apply down to the nearest '(' and discard it
RECURSIVE close_paren(_, _)
close_paren(value_stack, operator_stack) ==
    IF operator_stack # <<>> /\ Back(operator_stack) # "LParen"
    THEN LET a == apply_top_operator(value_stack, operator_stack)
         IN  IF a.err # NoError THEN a
             ELSE close_paren(a.value_stack, a.operator_stack)
    ELSE IF operator_stack = <<>>
    THEN [err |-> "mismatched ')'", value_stack |-> value_stack,
          operator_stack |-> operator_stack]
    ELSE [err |-> NoError, value_stack |-> value_stack,
          operator_stack |-> Pop(operator_stack)]

\* the loop after the tokens: drain the operator stack, then take the root
RECURSIVE drain_operators(_, _)
drain_operators(value_stack, operator_stack) ==
    IF operator_stack # <<>>
    THEN IF Back(operator_stack) = "LParen"
         THEN [err |-> "mismatched '('", root |-> NullNode]
         ELSE LET a == apply_top_operator(value_stack, operator_stack)
              IN  IF a.err # NoError THEN [err |-> a.err, root |-> NullNode]
                  ELSE drain_operators(a.value_stack, a.operator_stack)
    ELSE IF Len(value_stack) # 1
    THEN [err |-> "invalid expression", root |-> NullNode]
    ELSE [err |-> NoError, root |-> Back(value_stack)]

\* the body of the for loop over tokens_ for one token; stop is the break
\* at the End token
build_step(current_token, values, operators) ==
    IF current_token.type = "Number"
    THEN [err |-> NoError, stop |-> FALSE,
          value_stack |-> Append(values, NumberNode(current_token.value)),
          operator_stack |-> operators]
    ELSE IF current_token.type = "Variable"
    THEN [err |-> NoError, stop |-> FALSE,
          value_stack |-> Append(values, VariableNode(current_token.variable_name)),
          operator_stack |-> operators]
    ELSE IF current_token.type = "LParen"
    THEN [err |-> NoError, stop |-> FALSE, value_stack |-> values,
          operator_stack |-> Append(operators, "LParen")]
    ELSE IF current_token.type = "RParen"
    THEN LET c == close_paren(values, operators)
         IN  [err |-> c.err, stop |-> FALSE, value_stack |-> c.value_stack,
              operator_stack |-> c.operator_stack]
    ELSE IF is_arithmetic_operator(current_token.type)
    THEN LET h == handle_operator(current_token.type, values, operators)
         IN  [err |-> h.err, stop |-> FALSE, value_stack |-> h.value_stack,
              operator_stack |-> h.operator_stack]
    ELSE IF current_token.type = "End"
    THEN [err |-> NoError, stop |-> TRUE, value_stack |-> values,
          operator_stack |-> operators]
    ELSE [err |-> "unexpected token", stop |-> FALSE, value_stack |-> values,
          operator_stack |-> operators]

\* the for loop over tokens_, from token k, and what follows it
RECURSIVE build_loop(_, _, _, _)
build_loop(tokens, k, values, operators) ==
    IF k > Len(tokens) THEN drain_operators(values, operators)
    ELSE LET step == build_step(tokens[k], values, operators)
         IN  IF step.err # NoError THEN [err |-> step.err, root |-> NullNode]
             ELSE IF step.stop
             THEN drain_operators(step.value_stack, step.operator_stack)
             ELSE build_loop(tokens, k + 1, step.value_stack, step.operator_stack)

\* AST::add_tokens_to_tree: root_.reset(), then the loop; root is root_ as
\* the call leaves it (null when it throws)
add_tokens_to_tree(tokens) == build_loop(tokens, 1, <<>>, <<>>)

\* an AST object: its two fields
AST(root, tokens) == [root_ |-> root, tokens_ |-> tokens]

\* clear that empties tokens_ and keeps the root
clear_keeps_root(ast) == AST(ast.root_, <<>>)

\* AST::clear
clear(ast) == AST(NullNode, <<>>)

\* parse that does not call clear() first
parse_without_clear(ast, input_expression) ==
    LET t == tokenize(input_expression)
    IN  IF t.err # NoError
        THEN [err |-> t.err, tokens |-> t.tokens, root |-> ast.root_]
        ELSE LET b == add_tokens_to_tree(t.tokens)
             IN  [err |-> b.err, tokens |-> t.tokens, root |-> b.root]

\* AST::parse on the object ast: clear(), tokenize, add_tokens_to_tree; the
\* fields as the call leaves them, also when it throws
parse(ast, input_expression) ==
    LET cleared == clear(ast)
        t == tokenize(input_expression)
    IN  IF t.err # NoError
        THEN [err |-> t.err, tokens |-> t.tokens, root |-> cleared.root_]
        ELSE LET b == add_tokens_to_tree(t.tokens)
             IN  [err |-> b.err, tokens |-> t.tokens, root |-> b.root]

-----------------------------------------------------------------------------
(* Tree evaluation: Node::get_value has one body in src/AST.cpp and        *)
(* another, inline, in src/AST.h; build.get_value is the one the build     *)
(* uses.                                                                   *)

\* outcome of evaluating two operand expressions and combining their values:
\* the operand evaluated first decides which exception leaves
Combine(l, r, left_first, op(_, _)) ==
    LET first == IF left_first THEN l ELSE r
        second == IF left_first THEN r ELSE l
    IN  IF ~IsOk(first) THEN first
        ELSE IF ~IsOk(second) THEN second
        ELSE op(l.value, r.value)

\* src/AST.cpp: checked arithmetic; the operands are function arguments,
\* evaluated in the order the build chooses
RECURSIVE get_value(_, _)
get_value(b, node) ==
    IF node = NullNode THEN Throw(Segv)
    ELSE IF node.type = "Number" THEN Ok(node.value)
    ELSE IF node.type = "Variable"
    THEN Throw("cannot evaluate variable without bindings")
    ELSE IF node.left = NullNode \/ node.right = NullNode
    THEN Throw("malformed AST")
    ELSE IF node.type = "Add"
    THEN Combine(get_value(b, node.left), get_value(b, node.right),
                 b.left_first, checked_add)
    ELSE IF node.type = "Sub"
    THEN Combine(get_value(b, node.left), get_value(b, node.right),
                 b.left_first, checked_sub)
    ELSE IF node.type = "Mult"
    THEN Combine(get_value(b, node.left), get_value(b, node.right),
                 b.left_first, checked_mul)
    ELSE IF node.type = "Div"
    THEN Combine(get_value(b, node.left), get_value(b, node.right),
                 b.left_first, checked_div)
    ELSE Throw("malformed AST")


\* src/AST.h: the built-in operators, and 0 for every other node type; the
\* children are not tested, a null one is read through
RECURSIVE get_value_inline(_, _)
get_value_inline(b, node) ==
    IF node = NullNode THEN Throw(Segv)
    ELSE IF node.type = "Number" THEN Ok(node.value)
    ELSE IF node.type = "Variable"
    THEN Throw("cannot evaluate variable without bindings")
    ELSE IF node.type = "Add"
    THEN LET add(l, r) == builtin_arith(b, l + r)
         IN  Combine(get_value_inline(b, node.left), get_value_inline(b, node.right),
                     b.left_first, add)
    ELSE IF node.type = "Sub"
    THEN LET sub(l, r) == builtin_arith(b, l - r)
         IN  Combine(get_value_inline(b, node.left), get_value_inline(b, node.right),
                     b.left_first, sub)
    ELSE IF node.type = "Mult"
    THEN LET mul(l, r) == builtin_arith(b, l * r)
         IN  Combine(get_value_inline(b, node.left), get_value_inline(b, node.right),
                     b.left_first, mul)
    ELSE Ok(0)

\* a call node->get_value()
Node_get_value(b, node) ==
    IF b.get_value = "AST.cpp" THEN get_value(b, node) ELSE get_value_inline(b, node)

\* AST::evaluate
evaluate(b, root) ==
    IF root = NullNode THEN Throw("tree is empty") ELSE Node_get_value(b, root)

-----------------------------------------------------------------------------
(* Preorder codec (src/main.cpp) *)

RECURSIVE NatToDecimal(_)
NatToDecimal(n) ==
    IF n < 10 THEN <<Digits[n + 1]>>
    ELSE NatToDecimal(n \div 10) \o <<Digits[(n % 10) + 1]>>

\* operator<< of an int64_t: its decimal digits, '-' first when negative
ToDecimal(v) == IF v < 0 THEN <<"-">> \o NatToDecimal(0 - v) ELSE NatToDecimal(v)

\* one << on the output stream: of a character, which the stream takes
\* with put, or of an integer or a string, which it takes with sputn
PutChar(c) == [how |-> "put", text |-> <<c>>]
PutText(text) == [how |-> "sputn", text |-> text]

\* write_pre: writes holds every << on the output stream, in order, and out
\* is the text they make, also when it throws or when the read of a null
\* node kills the process
RECURSIVE write_pre(_)
write_pre(current_node) ==
    IF current_node = NullNode THEN [err |-> Segv, out |-> <<>>, writes |-> <<>>]
    ELSE IF current_node.type = "Number"
    THEN [err |-> NoError, out |-> ToDecimal(current_node.value) \o <<" ">>,
          writes |-> <<PutText(ToDecimal(current_node.value)), PutChar(" ")>>]
    ELSE IF current_node.type = "Variable"
    THEN [err |-> NoError, out |-> current_node.variable_name \o <<" ">>,
          writes |-> <<PutText(current_node.variable_name), PutChar(" ")>>]
    ELSE LET operator_symbol ==
                 IF current_node.type = "Add" THEN "+"
                 ELSE IF current_node.type = "Sub" THEN "-"
                 ELSE IF current_node.type = "Mult" THEN "*"
                 ELSE "throw"
         IN  IF operator_symbol = "throw"
             THEN [err |-> "malformed AST", out |-> <<>>, writes |-> <<>>]
             ELSE LET l == write_pre(current_node.left)
                      head == <<operator_symbol, " ">> \o l.out
                      head_writes == <<PutChar(operator_symbol), PutChar(" ")>> \o l.writes
                  IN  IF l.err # NoError
                      THEN [err |-> l.err, out |-> head, writes |-> head_writes]
                      ELSE LET r == write_pre(current_node.right)
                           IN  [err |-> r.err, out |-> head \o r.out,
                                writes |-> head_writes \o r.writes]

\* input_stream >> token: skip whitespace, then take the characters up to
\* the next whitespace; fails at the end of the stream
RECURSIVE TokenEnd(_, _)
TokenEnd(s, i) ==
    IF i <= Len(s) /\ ~isspace(s[i]) THEN TokenEnd(s, i + 1) ELSE i

ReadToken(buf, pos) ==
    LET start == SkipSpace(buf, pos)
        end == TokenEnd(buf, start)
    IN  IF start > Len(buf) THEN [ok |-> FALSE, token |-> <<>>, pos |-> start]
        ELSE [ok |-> TRUE, token |-> SubSeq(buf, start, end - 1), pos |-> end]

is_variable_token(token) ==
    token # <<>> /\ \A k \in 1..Len(token) : islower(token[k])

\* std::stoll and the test that it consumed the whole token
parse_int64_token(token) ==
    LET start == SkipSpace(token, 1)
        signed == start <= Len(token) /\ token[start] \in {"+", "-"}
        first == IF signed THEN start + 1 ELSE start
        end == DigitRunEnd(token, first)
        magnitude == DigitRunValue(token, first, end, 0)
        negative == signed /\ token[start] = "-"
    IN  IF end = first THEN Throw("bad integer token")
        ELSE IF negative /\ magnitude > INT64_MAX + 1 THEN Throw("bad integer token")
        ELSE IF ~negative /\ magnitude > INT64_MAX THEN Throw("bad integer token")
        ELSE IF end # Len(token) + 1 THEN Throw("bad integer token")
        ELSE Ok(IF negative THEN 0 - magnitude ELSE magnitude)

\* the part of eval_pre after its operator branch: a variable name is looked
\* up in the bindings, any other token is an integer literal
eval_pre_leaf(parsed_token, variable_values) ==
    IF is_variable_token(parsed_token)
    THEN IF parsed_token \in DOMAIN variable_values
         THEN Ok(variable_values[parsed_token])
         ELSE Throw("unbound variable")
    ELSE parse_int64_token(parsed_token)

\* eval_pre on the stream text buf read from pos; pos of the result is the
\* read position the call leaves
RECURSIVE eval_pre(_, _, _, _)
eval_pre(b, buf, pos, variable_values) ==
    LET t == ReadToken(buf, pos)
    IN  IF ~t.ok THEN [err |-> "bad preorder", value |-> 0, pos |-> t.pos]
        ELSE IF t.token \in {<<"+">>, <<"-">>, <<"*">>}
        THEN LET l == eval_pre(b, buf, t.pos, variable_values)
             IN  IF l.err # NoError THEN l
                 ELSE LET r == eval_pre(b, buf, l.pos, variable_values)
                          v == IF t.token = <<"+">> THEN builtin_arith(b, l.value + r.value)
                               ELSE IF t.token = <<"-">>
                               THEN builtin_arith(b, l.value - r.value)
                               ELSE builtin_arith(b, l.value * r.value)
                      IN  IF r.err # NoError THEN r
                          ELSE [err |-> v.err, value |-> v.value, pos |-> r.pos]
        ELSE LET v == eval_pre_leaf(t.token, variable_values)
             IN  [err |-> v.err, value |-> v.value, pos |-> t.pos]

\* run_eval_mode without the test for trailing tokens
run_eval_mode_unchecked(b, buf, variable_values) ==
    LET r == eval_pre(b, buf, 1, variable_values)
    IN  IF r.err = Trap
        THEN [exit |-> "killed", err |-> Trap, stdout |-> <<>>, pos |-> r.pos]
        ELSE IF r.err # NoError
        THEN [exit |-> "1", err |-> r.err, stdout |-> <<>>, pos |-> r.pos]
        ELSE [exit |-> "0", err |-> NoError,
              stdout |-> ToDecimal(r.value) \o <<"\n">>, pos |-> r.pos]

\* the try block of run_eval_mode: what the process prints and returns
run_eval_mode(b, buf, variable_values) ==
    LET r == eval_pre(b, buf, 1, variable_values)
    IN  IF r.err = Trap
        THEN [exit |-> "killed", err |-> Trap, stdout |-> <<>>, pos |-> r.pos]
        ELSE IF r.err # NoError
        THEN [exit |-> "1", err |-> r.err, stdout |-> <<>>, pos |-> r.pos]
        ELSE LET trailing == ReadToken(buf, r.pos)
             IN  IF trailing.ok
                 THEN [exit |-> "1", err |-> "trailing garbage in preorder",
                       stdout |-> <<>>, pos |-> trailing.pos]
                 ELSE [exit |-> "0", err |-> NoError,
                       stdout |-> ToDecimal(r.value) \o <<"\n">>, pos |-> trailing.pos]

\* std::ofstream, the stream ast_output of run_build_mode: the put area of
\* its file buffer takes StreamBufferSize characters
StreamBufferSize == 8191
\* a text of DirectWriteSize characters or more goes to the file unbuffered
DirectWriteSize == 1024

\* the stream as run_build_mode opens it: the file emptied, nothing buffered
OpenStream == [file |-> <<>>, buffer |-> <<>>]

\* << of an integer or a string on the file stream, std::filebuf::xsputn:
\* a text as long as the room left in the put area, or as DirectWriteSize,
\* is written to the file behind what the buffer holds, and the buffer is
\* emptied; a shorter one is buffered
xsputn(stream, text) ==
    LET bufavail == StreamBufferSize - Len(stream.buffer)
        limit == IF DirectWriteSize < bufavail THEN DirectWriteSize ELSE bufavail
    IN  IF Len(text) >= limit
        THEN [file |-> stream.file \o stream.buffer \o text, buffer |-> <<>>]
        ELSE [file |-> stream.file, buffer |-> stream.buffer \o text]

\* << of a character on the file stream, std::streambuf::sputc: it takes a
\* free place of the put area; when none is free, std::filebuf::overflow
\* writes what the buffer holds and the character to the file
sputc(stream, c) ==
    IF Len(stream.buffer) < StreamBufferSize
    THEN [file |-> stream.file, buffer |-> Append(stream.buffer, c)]
    ELSE [file |-> stream.file \o stream.buffer \o <<c>>, buffer |-> <<>>]

\* one << on the file stream
put_write(stream, write) ==
    IF write.how = "put" THEN sputc(stream, write.text[1])
    ELSE xsputn(stream, write.text)

\* the stream after every << of writes, in order: the first half of them,
\* then the second half on the stream that the first half leaves
RECURSIVE put_writes(_, _)
put_writes(stream, writes) ==
    IF writes = <<>> THEN stream
    ELSE IF Len(writes) = 1 THEN put_write(stream, writes[1])
    ELSE LET half == Len(writes) \div 2
             first == SubSeq(writes, 1, half)
             second == SubSeq(writes, half + 1, Len(writes))
         IN  CHOOSE last \in {put_writes(after_first, second) :
                                 after_first \in {put_writes(stream, first)}} : TRUE

\* the last statements of run_build_mode on the root parse left:
\* write_pre(ast.root(), ast_output), then the newline.  file is what the
\* output file holds when the process has ended: returning, or an exception
\* on its way to main, closes the stream, which writes the buffer out; a
\* killed process leaves the file with what the stream had already written
\* to it, and what the buffer held is lost
write_ast_output(root) ==
    LET w == write_pre(root)
    IN  IF w.err = Segv
        THEN [exit |-> "killed", err |-> Segv,
              file |-> put_writes(OpenStream, w.writes).file]
        ELSE IF w.err # NoError THEN [exit |-> "1", err |-> w.err, file |-> w.out]
        ELSE [exit |-> "0", err |-> NoError, file |-> w.out \o <<"\n">>]

\* run_build_mode on the text of the expression file, the output file
\* opened (and so emptied) before the parse; main catches the exceptions
run_build_mode(expression) ==
    LET written(p) ==
            IF p.err # NoError THEN [exit |-> "1", err |-> p.err, file |-> <<>>]
            ELSE write_ast_output(p.root)
    IN  written(parse(AST(NullNode, <<>>), expression))

-----------------------------------------------------------------------------
(* What a build fixes.  The source leaves three things open: which of the  *)
(* two bodies of Node::get_value is used, what a signed overflow of the    *)
(* built-in operators does, and the order in which the two operands of a   *)
(* node are evaluated.  build is NoBuild until the first operation that    *)
(* depends on it runs, and never changes afterwards; the operations that   *)
(* depend on it take it as their first parameter.                          *)

Builds == [get_value : {"AST.cpp", "AST.h"}, overflow : {"wrap", "trap"},
           left_first : BOOLEAN]

NoBuild == [get_value |-> "open", overflow |-> "open", left_first |-> TRUE]

\* the builds the program may turn out to be
OpenBuilds == IF build = NoBuild THEN Builds ELSE {build}

-----------------------------------------------------------------------------
(* Values of the variables an operation has not touched *)

NoResult == [err |-> "none", value |-> 0]
NoPre == [err |-> "none", out |-> <<>>, writes |-> <<>>]
NoDecoded == [err |-> "none", value |-> 0, pos |-> 1]
NoRun == [exit |-> "none", err |-> "none", stdout |-> <<>>, pos |-> 1]
NoBindings == [n \in {} |-> 0]

\* text of at most n characters over an alphabet
Texts(alphabet, n) == UNION {[1..k -> alphabet] : k \in 0..n}

\* the tokens of a preorder stream, each followed by one space
RECURSIVE Join(_)
Join(toks) == IF toks = <<>> THEN <<>> ELSE Head(toks) \o <<" ">> \o Join(Tail(toks))

-----------------------------------------------------------------------------
(* The variable-values file (src/main.cpp) *)

\* std::getline: the line that starts at pos, without its '\n'
RECURSIVE LineEnd(_, _)
LineEnd(text, pos) ==
    IF pos <= Len(text) /\ text[pos] # "\n" THEN LineEnd(text, pos + 1) ELSE pos

\* the lambda trim: text without leading and trailing whitespace
RECURSIVE TrimEnd(_, _, _)
TrimEnd(text, start, end) ==
    IF end > start /\ isspace(text[end - 1]) THEN TrimEnd(text, start, end - 1)
    ELSE end

trim(text) ==
    LET start == SkipSpace(text, 1)
        end == TrimEnd(text, start, Len(text) + 1)
    IN  SubSeq(text, start, end - 1)

\* std::string::find('=', from): the position, or 0 for npos
RECURSIVE find_equal(_, _)
find_equal(text, from) ==
    IF from > Len(text) THEN 0
    ELSE IF text[from] = "=" THEN from
    ELSE find_equal(text, from + 1)

\* variable_values[variable_name] = value
Assign(variable_values, variable_name, value) ==
    [n \in DOMAIN variable_values \cup {variable_name} |->
        IF n = variable_name THEN value ELSE variable_values[n]]

\* the while loop over the lines, from the line that starts at pos; line of
\* the result is the line number the message of the exception names, 0 when
\* the message names none
RECURSIVE read_lines(_, _, _, _)
read_lines(text, pos, line_number, variable_values) ==
    IF pos > Len(text)
    THEN [err |-> NoError, line |-> 0, values |-> variable_values]
    ELSE LET end == LineEnd(text, pos)
             trimmed_line == trim(SubSeq(text, pos, end - 1))
             equal_sign == find_equal(trimmed_line, 1)
             variable_name == trim(SubSeq(trimmed_line, 1, equal_sign - 1))
             variable_value_text ==
                 trim(SubSeq(trimmed_line, equal_sign + 1, Len(trimmed_line)))
             value == parse_int64_token(variable_value_text)
         IN  IF trimmed_line = <<>>
             THEN read_lines(text, end + 1, line_number + 1, variable_values)
             ELSE IF equal_sign = 0 \/ find_equal(trimmed_line, equal_sign + 1) # 0
             THEN [err |-> "invalid variable assignment on line",
                   line |-> line_number + 1, values |-> variable_values]
             ELSE IF ~is_variable_token(variable_name)
             THEN [err |-> "invalid variable name on line",
                   line |-> line_number + 1, values |-> variable_values]
             ELSE IF ~IsOk(value)
             THEN [err |-> value.err, line |-> 0, values |-> variable_values]
             ELSE read_lines(text, end + 1, line_number + 1,
                             Assign(variable_values, variable_name, value.value))

\* parse_variable_values_file on the text of the file
parse_variable_values_file(text) == read_lines(text, 1, 0, NoBindings)

-----------------------------------------------------------------------------
(* SpecTree: a Node tree is serialized by write_pre, evaluated by          *)
(* Node::get_value, and its serialization is evaluated by eval_pre.        *)

Operators == {"Add", "Sub", "Mult", "Div"}
LeafNodes(values) == {NumberNode(v) : v \in values}
OpNodes(ls, rs) == {OperatorNode(t, l, r) : t \in Operators, l \in ls, r \in rs}

EdgeValues == {INT64_MIN, 0 - 1, 2}

\* leaves and one-operator trees over every int64_t value and a variable,
\* and two-level trees over the edge values
Trees ==
    LET all == LeafNodes(Int64) \cup {VariableNode(<<"x">>)}
        edge == LeafNodes(EdgeValues)
        small == edge \cup OpNodes(edge, edge)
    IN  all \cup OpNodes(all, all) \cup OpNodes(small, small)

BindingSets == {NoBindings, [n \in {<<"x">>} |-> 2]}

InitTree ==
    /\ build = NoBuild
    /\ pc = "tree"
    /\ tree \in Trees
    /\ bindings \in BindingSets
    /\ input = <<>>
    /\ tokens_ = <<>>
    /\ root_ = NullNode
    /\ result = NoResult
    /\ file = <<>>
    /\ pre = NoPre
    /\ decoded = NoDecoded
    /\ run = NoRun
    /\ history = <<>>
    /\ build_value_stack = <<>>
    /\ build_operator_stack = <<>>
    /\ token_index = 0

\* write_pre on the tree and the newline after it, as run_build_mode does
TreeWritePre ==
    /\ pc = "tree"
    /\ pc' = "written"
    /\ pre' = write_pre(tree)
    /\ file' = write_ast_output(tree).file
    /\ UNCHANGED <<history, build_value_stack, build_operator_stack, token_index>>
    /\ UNCHANGED <<build, input, tokens_, root_, result, tree, bindings, decoded, run>>

TreeGetValue ==
    /\ pc = "written"
    /\ pc' = "valued"
    /\ \E b \in OpenBuilds :
        /\ build' = b
        /\ result' = Node_get_value(b, tree)
    /\ UNCHANGED <<history, build_value_stack, build_operator_stack, token_index>>
    /\ UNCHANGED <<input, tokens_, root_, tree, bindings, file, pre, decoded, run>>

TreeEvalPre ==
    /\ pc = "valued"
    /\ pc' = "decoded"
    /\ decoded' = eval_pre(build, file, 1, bindings)
    /\ UNCHANGED <<history, build_value_stack, build_operator_stack, token_index>>
    /\ UNCHANGED <<build, input, tokens_, root_, result, tree, bindings, file, pre, run>>

NextTree == TreeWritePre \/ TreeGetValue \/ TreeEvalPre

SpecTree == InitTree /\ [][NextTree]_vars

-----------------------------------------------------------------------------
(* SpecEval: eval mode on a preorder file, and eval_pre on its own.        *)

StreamTokens ==
    {<<"+">>, <<"-">>, <<"*">>, <<"/">>, <<"1">>, <<"2">>, <<"x">>, <<"1", "x">>,
     ToDecimal(INT64_MAX), ToDecimal(INT64_MIN)}

\* the streams of the testable properties that the token set does not give
ExampleStreams ==
    {<<<<"+">>, <<"1">>, <<"2">>, <<"3">>>>,
     <<<<"/">>, <<"7">>, <<"2">>>>,
     <<<<"+">>, <<"x">>, <<"1">>>>}

\* a preorder file as run_build_mode writes it: every token followed by a
\* space, and a newline at the end
Streams ==
    {Join(toks) \o <<"\n">> :
        toks \in Texts(StreamTokens, MaxTokens) \cup ExampleStreams}

InitEval ==
    /\ build = NoBuild
    /\ pc = "stream"
    /\ file \in Streams
    /\ bindings \in BindingSets
    /\ tree = NullNode
    /\ input = <<>>
    /\ tokens_ = <<>>
    /\ root_ = NullNode
    /\ result = NoResult
    /\ pre = NoPre
    /\ decoded = NoDecoded
    /\ run = NoRun
    /\ history = <<>>
    /\ build_value_stack = <<>>
    /\ build_operator_stack = <<>>
    /\ token_index = 0

\* one call of eval_pre on the file
EvalPre ==
    /\ pc = "stream"
    /\ pc' = "decoded"
    /\ \E b \in OpenBuilds :
        /\ build' = b
        /\ decoded' = eval_pre(b, file, 1, bindings)
    /\ UNCHANGED <<history, build_value_stack, build_operator_stack, token_index>>
    /\ UNCHANGED <<input, tokens_, root_, result, tree, bindings, file, pre, run>>

\* the program in eval mode
RunEvalMode ==
    /\ pc = "stream"
    /\ pc' = "ran"
    /\ \E b \in OpenBuilds :
        /\ build' = b
        /\ run' = run_eval_mode(b, file, bindings)
    /\ UNCHANGED <<history, build_value_stack, build_operator_stack, token_index>>
    /\ UNCHANGED <<input, tokens_, root_, result, tree, bindings, file, pre, decoded>>

NextEval == EvalPre \/ RunEvalMode

SpecEval == InitEval /\ [][NextEval]_vars

-----------------------------------------------------------------------------
(* SpecParse: one expression text goes through a fresh AST object, by      *)
(* parse or by tokenize and add_tokens_to_tree, and is then evaluated.     *)

ParseAlphabet == {"1", "x", "+", "-", "*", "/", "(", ")", " "}

\* the expressions of the testable properties, and others longer than MaxLen
Examples ==
    {<<"1", "+", "2", "*", "3">>,
     <<"(", "1", "+", "2", ")", "*", "3">>,
     <<"7", "-", "2", "-", "3">>,
     <<"8", "/", "2", "*", "3">>,
     <<"8", "/", "2", "/", "2">>,
     <<"2", "*", "3", "+", "1">>,
     <<"7", "-", "2", "*", "3">>,
     <<"7", "-", "(", "2", "-", "3", ")">>,
     <<"-", "5">>,
     <<"-", "(", "2", "+", "3", ")">>,
     <<"-", "-", "5">>,
     <<"2", "/", "-", "(", "2", ")">>,
     <<"2", "/", "-", "-", "2">>,
     <<"2", "/", "-", "x">>,
     <<"2", "*", "-", "(", "3", ")">>,
     <<"7", "-", "-", "-", "5">>,
     <<"7", "/", "2">>,
     <<"-", "7", "/", "2">>,
     <<"1", "/", "0">>,
     <<"x", "+", "1">>,
     <<"1", "+">>,
     <<"(", ")">>,
     <<"1", " ", "2">>,
     <<"*", "1">>,
     <<"(", "1">>,
     <<"1", ")">>,
     <<"(", "1", ")", ")">>,
     <<"(", "(", "1", ")">>,
     <<"1", "+", "A">>,
     <<"-", VerticalTab, "5">>,
     <<"1", VerticalTab, "+", "\t", "2">>,
     ToDecimal(INT64_MAX) \o <<"+", "1">>,
     ToDecimal(INT64_MIN) \o <<"/", "-", "1">>,
     ToDecimal(INT64_MIN) \o <<"-", "1">>,
     NatToDecimal(INT64_MAX + 1),
     <<"-">> \o NatToDecimal(INT64_MAX + 2)}

\* every integer literal of at most MaxDigits digits: plain, after a unary
\* minus, and after a unary minus and a space
LiteralTexts ==
    {prefix \o digits : prefix \in {<<>>, <<"-">>, <<"-", " ">>},
                        digits \in Texts(DigitSet, MaxDigits) \ {<<>>}}

Inputs == Texts(ParseAlphabet, MaxLen) \cup Examples \cup LiteralTexts

InitParse ==
    /\ build = NoBuild
    /\ pc = "start"
    /\ input \in Inputs
    /\ tokens_ = <<>>
    /\ root_ = NullNode
    /\ result = NoResult
    /\ tree = NullNode
    /\ bindings = NoBindings
    /\ file = <<>>
    /\ pre = NoPre
    /\ decoded = NoDecoded
    /\ run = NoRun
    /\ history = <<>>
    /\ build_value_stack = <<>>
    /\ build_operator_stack = <<>>
    /\ token_index = 0

\* ast.tokenize(input)
Tokenize ==
    /\ pc = "start"
    /\ pc' = "tokenized"
    /\ LET t == tokenize(input)
       IN  /\ tokens_' = t.tokens
           /\ result' = [err |-> t.err, value |-> 0]
    /\ UNCHANGED <<history, build_value_stack, build_operator_stack, token_index>>
    /\ UNCHANGED <<build, input, root_, tree, bindings, file, pre, decoded, run>>

\* ast.add_tokens_to_tree()
AddTokensToTree ==
    /\ pc = "tokenized"
    /\ pc' = "built"
    /\ LET b == add_tokens_to_tree(tokens_)
       IN  /\ root_' = b.root
           /\ result' = [err |-> b.err, value |-> 0]
    /\ UNCHANGED <<history, build_value_stack, build_operator_stack, token_index>>
    /\ UNCHANGED <<build, input, tokens_, tree, bindings, file, pre, decoded, run>>

\* ast.parse(input)
Parse ==
    /\ pc = "start"
    /\ pc' = "parsed"
    /\ LET p == parse(AST(root_, tokens_), input)
       IN  /\ tokens_' = p.tokens
           /\ root_' = p.root
           /\ result' = [err |-> p.err, value |-> 0]
    /\ UNCHANGED <<history, build_value_stack, build_operator_stack, token_index>>
    /\ UNCHANGED <<build, input, tree, bindings, file, pre, decoded, run>>

\* ast.evaluate()
Evaluate ==
    /\ pc \in {"parsed", "built"}
    /\ pc' = IF pc = "parsed" THEN "parsed_evaluated" ELSE "built_evaluated"
    /\ \E b \in (IF root_ = NullNode THEN {build} ELSE OpenBuilds) :
        /\ build' = b
        /\ result' = evaluate(b, root_)
    /\ UNCHANGED <<history, build_value_stack, build_operator_stack, token_index>>
    /\ UNCHANGED <<input, tokens_, root_, tree, bindings, file, pre, decoded, run>>

\* the program in build mode on an expression file that holds input
RunBuildMode ==
    /\ pc = "start"
    /\ pc' = "build_ran"
    /\ \E r \in {run_build_mode(input)} :
        /\ file' = r.file
        /\ run' = [exit |-> r.exit, err |-> r.err, stdout |-> <<>>, pos |-> 1]
    /\ UNCHANGED <<build, input, tokens_, root_, result, tree, bindings, pre,
                   decoded, history, build_value_stack, build_operator_stack,
                   token_index>>

NextParse == Tokenize \/ AddTokensToTree \/ Parse \/ Evaluate \/ RunBuildMode

SpecParse == InitParse /\ [][NextParse]_vars

-----------------------------------------------------------------------------
(* SpecAST: one AST object goes through any sequence of at most MaxCalls   *)
(* calls of its public member functions; history records each call and its *)
(* outcome.  A call that kills the process is the last one.                *)

CallInputs ==
    {<<"2", "*", "3">>,
     <<"1", " ", "2">>,
     <<"(", "1">>,
     <<"1", "+">>,
     ToDecimal(INT64_MAX) \o <<"+", "1">>}

Call(name, text, outcome) ==
    [call |-> name, input |-> text, err |-> outcome.err, value |-> outcome.value]

\* the object can take another call
CanCall == pc = "object" /\ Len(history) < MaxCalls /\ result.err # Trap

InitAST ==
    /\ build = NoBuild
    /\ pc = "object"
    /\ input = <<>>
    /\ tokens_ = <<>>
    /\ root_ = NullNode
    /\ result = NoResult
    /\ tree = NullNode
    /\ bindings = NoBindings
    /\ file = <<>>
    /\ pre = NoPre
    /\ decoded = NoDecoded
    /\ run = NoRun
    /\ history = <<>>
    /\ build_value_stack = <<>>
    /\ build_operator_stack = <<>>
    /\ token_index = 0

\* ast.clear()
AstClear ==
    /\ CanCall
    /\ LET c == clear(AST(root_, tokens_))
       IN  /\ root_' = c.root_
           /\ tokens_' = c.tokens_
    /\ result' = Ok(0)
    /\ history' = Append(history, Call("clear", <<>>, result'))
    /\ UNCHANGED <<build, pc, input, tree, bindings, file, pre, decoded, run,
                   build_value_stack, build_operator_stack, token_index>>

\* ast.tokenize(e)
AstTokenize ==
    /\ CanCall
    /\ \E e \in CallInputs :
        /\ input' = e
        /\ tokens_' = tokenize(e).tokens
        /\ result' = [err |-> tokenize(e).err, value |-> 0]
        /\ history' = Append(history, Call("tokenize", e, result'))
    /\ UNCHANGED <<build, pc, root_, tree, bindings, file, pre, decoded, run,
                   build_value_stack, build_operator_stack, token_index>>

\* ast.add_tokens_to_tree()
AstAddTokensToTree ==
    /\ CanCall
    /\ root_' = add_tokens_to_tree(tokens_).root
    /\ result' = [err |-> add_tokens_to_tree(tokens_).err, value |-> 0]
    /\ history' = Append(history, Call("add_tokens_to_tree", <<>>, result'))
    /\ UNCHANGED <<build, pc, input, tokens_, tree, bindings, file, pre, decoded,
                   run, build_value_stack, build_operator_stack, token_index>>

\* ast.parse(e)
AstParse ==
    /\ CanCall
    /\ \E e \in CallInputs :
        LET p == parse(AST(root_, tokens_), e)
        IN  /\ input' = e
            /\ tokens_' = p.tokens
            /\ root_' = p.root
            /\ result' = [err |-> p.err, value |-> 0]
            /\ history' = Append(history, Call("parse", e, result'))
    /\ UNCHANGED <<build, pc, tree, bindings, file, pre, decoded, run,
                   build_value_stack, build_operator_stack, token_index>>

\* ast.evaluate()
AstEvaluate ==
    /\ CanCall
    /\ \E b \in (IF root_ = NullNode THEN {build} ELSE OpenBuilds) :
        /\ build' = b
        /\ result' = evaluate(b, root_)
    /\ history' = Append(history, Call("evaluate", <<>>, result'))
    /\ UNCHANGED <<pc, input, tokens_, root_, tree, bindings, file, pre, decoded,
                   run, build_value_stack, build_operator_stack, token_index>>

NextAST == AstClear \/ AstTokenize \/ AstAddTokensToTree \/ AstParse \/ AstEvaluate

SpecAST == InitAST /\ [][NextAST]_vars

-----------------------------------------------------------------------------
(* SpecBindings: a variable-values file is read by                          *)
(* parse_variable_values_file.                                             *)

BindingLines ==
    {<<>>,
     <<" ">>,
     <<"x", "=", "1">>,
     <<" ", "y", " ", "=", " ", "-", "2", " ">>,
     <<"x">>,
     <<"x", "=", "1", "=", "2">>,
     <<"X", "=", "1">>,
     <<"=", "1">>,
     <<"x", "1", "=", "2">>,
     <<"x", "=">>,
     <<"x", "=", "1", "a">>,
     <<"x", "=">> \o NatToDecimal(INT64_MAX + 1),
     <<"x", "=">> \o ToDecimal(INT64_MIN)}

\* the lines of a file, each ended by '\n'
RECURSIVE JoinLines(_)
JoinLines(lines) ==
    IF lines = <<>> THEN <<>>
    ELSE Head(lines) \o <<"\n">> \o JoinLines(Tail(lines))

BindingFiles == {JoinLines(lines) : lines \in Texts(BindingLines, MaxLines)}

InitBindings ==
    /\ build = NoBuild
    /\ pc = "bindings_file"
    /\ file \in BindingFiles
    /\ bindings = NoBindings
    /\ input = <<>>
    /\ tokens_ = <<>>
    /\ root_ = NullNode
    /\ result = NoResult
    /\ tree = NullNode
    /\ pre = NoPre
    /\ decoded = NoDecoded
    /\ run = NoRun
    /\ history = <<>>
    /\ build_value_stack = <<>>
    /\ build_operator_stack = <<>>
    /\ token_index = 0

\* variable_values = parse_variable_values_file(variable_values_input);
\* value of result is the line number the error message names (0: none)
ParseVariableValuesFile ==
    /\ pc = "bindings_file"
    /\ pc' = "bindings_parsed"
    /\ LET v == parse_variable_values_file(file)
       IN  /\ result' = [err |-> v.err, value |-> v.line]
           /\ bindings' = IF v.err = NoError THEN v.values ELSE bindings
    /\ UNCHANGED <<build, input, tokens_, root_, tree, file, pre, decoded, run,
                   history, build_value_stack, build_operator_stack, token_index>>

NextBindings == ParseVariableValuesFile

SpecBindings == InitBindings /\ [][NextBindings]_vars

-----------------------------------------------------------------------------
(* SpecBuild: add_tokens_to_tree one token at a time, on the tokens_ that  *)
(* tokenize left for an input (also the partial ones of a failed           *)
(* tokenize, which a later add_tokens_to_tree call finds).                 *)

InitBuild ==
    /\ build = NoBuild
    /\ pc = "loop"
    /\ input \in Inputs
    /\ tokens_ = tokenize(input).tokens
    /\ root_ = NullNode
    /\ result = NoResult
    /\ tree = NullNode
    /\ bindings = NoBindings
    /\ file = <<>>
    /\ pre = NoPre
    /\ decoded = NoDecoded
    /\ run = NoRun
    /\ history = <<>>
    /\ build_value_stack = <<>>
    /\ build_operator_stack = <<>>
    /\ token_index = 1

\* one iteration of the for loop over tokens_
BuildStep ==
    /\ pc = "loop"
    /\ token_index <= Len(tokens_)
    /\ LET step == build_step(tokens_[token_index], build_value_stack,
                              build_operator_stack)
       IN  /\ build_value_stack' = step.value_stack
           /\ build_operator_stack' = step.operator_stack
           /\ pc' = IF step.err # NoError THEN "failed"
                    ELSE IF step.stop THEN "drain" ELSE "loop"
           /\ token_index' = IF step.err # NoError \/ step.stop THEN token_index
                             ELSE token_index + 1
           /\ result' = IF step.err # NoError THEN Throw(step.err) ELSE result
    /\ UNCHANGED <<build, input, tokens_, root_, tree, bindings, file, pre,
                   decoded, run, history>>

\* the for loop ends with the last token of tokens_
BuildLoopEnd ==
    /\ pc = "loop"
    /\ token_index > Len(tokens_)
    /\ pc' = "drain"
    /\ UNCHANGED <<build, input, tokens_, root_, result, tree, bindings, file,
                   pre, decoded, run, history, build_value_stack,
                   build_operator_stack, token_index>>

\* what follows the loop: the operators left are applied, the size of the
\* value stack is tested and root_ takes the node
BuildDrain ==
    /\ pc = "drain"
    /\ LET d == drain_operators(build_value_stack, build_operator_stack)
       IN  /\ root_' = d.root
           /\ result' = [err |-> d.err, value |-> 0]
           /\ pc' = IF d.err # NoError THEN "failed" ELSE "done"
    /\ UNCHANGED <<build, input, tokens_, tree, bindings, file, pre, decoded,
                   run, history, build_value_stack, build_operator_stack,
                   token_index>>

NextBuild == BuildStep \/ BuildLoopEnd \/ BuildDrain

SpecBuild == InitBuild /\ [][NextBuild]_vars

-----------------------------------------------------------------------------
(* The expression grammar of the specification, read by recursive descent: *)
(*   expr   := term (('+'|'-') term)*                                      *)
(*   term   := factor (('*'|'/') factor)*                                  *)
(*   factor := INTEGER | VARIABLE | '(' expr ')' | '-' factor              *)
(* A parse gives the tree the grammar groups the text into; a unary minus  *)
(* of an INTEGER is the negative literal, any other unary minus is -1      *)
(* times its factor.  unary tells whether the rule '-' factor was used.    *)

RECURSIVE Lex(_, _)
Lex(s, i) ==
    IF i > Len(s) THEN <<>>
    ELSE IF isspace(s[i]) THEN Lex(s, i + 1)
    ELSE IF isdigit(s[i])
    THEN <<[kind |-> "INTEGER", text |-> SubSeq(s, i, DigitRunEnd(s, i) - 1)]>>
         \o Lex(s, DigitRunEnd(s, i))
    ELSE IF islower(s[i])
    THEN <<[kind |-> "VARIABLE", text |-> SubSeq(s, i, LowerRunEnd(s, i) - 1)]>>
         \o Lex(s, LowerRunEnd(s, i))
    ELSE IF s[i] \in {"+", "-", "*", "/", "(", ")"}
    THEN <<[kind |-> s[i], text |-> <<s[i]>>]>> \o Lex(s, i + 1)
    ELSE <<[kind |-> "invalid", text |-> <<s[i]>>]>> \o Lex(s, i + 1)

NoParse == [ok |-> FALSE, tree |-> NullNode, pos |-> 0, unary |-> FALSE]

IntegerValue(text) == DigitRunValue(text, 1, Len(text) + 1, 0)

RECURSIVE GExpr(_, _)
RECURSIVE GExprRest(_, _, _, _)
RECURSIVE GTerm(_, _)
RECURSIVE GTermRest(_, _, _, _)
RECURSIVE GFactor(_, _)

GFactor(L, p) ==
    IF p > Len(L) THEN NoParse
    ELSE IF L[p].kind = "INTEGER"
    THEN [ok |-> TRUE, tree |-> NumberNode(IntegerValue(L[p].text)),
          pos |-> p + 1, unary |-> FALSE]
    ELSE IF L[p].kind = "VARIABLE"
    THEN [ok |-> TRUE, tree |-> VariableNode(L[p].text), pos |-> p + 1,
          unary |-> FALSE]
    ELSE IF L[p].kind = "("
    THEN LET e == GExpr(L, p + 1)
         IN  IF e.ok /\ e.pos <= Len(L) /\ L[e.pos].kind = ")"
             THEN [e EXCEPT !.pos = e.pos + 1]
             ELSE NoParse
    ELSE IF L[p].kind = "-"
    THEN IF p + 1 <= Len(L) /\ L[p + 1].kind = "INTEGER"
         THEN [ok |-> TRUE, tree |-> NumberNode(0 - IntegerValue(L[p + 1].text)),
               pos |-> p + 2, unary |-> TRUE]
         ELSE LET f == GFactor(L, p + 1)
              IN  IF f.ok
                  THEN [ok |-> TRUE,
                        tree |-> OperatorNode("Mult", NumberNode(0 - 1), f.tree),
                        pos |-> f.pos, unary |-> TRUE]
                  ELSE NoParse
    ELSE NoParse

GTermRest(L, p, left, unary) ==
    IF p <= Len(L) /\ L[p].kind \in {"*", "/"}
    THEN LET f == GFactor(L, p + 1)
         IN  IF f.ok
             THEN GTermRest(L, f.pos,
                            OperatorNode(IF L[p].kind = "*" THEN "Mult" ELSE "Div",
                                         left, f.tree),
                            unary \/ f.unary)
             ELSE NoParse
    ELSE [ok |-> TRUE, tree |-> left, pos |-> p, unary |-> unary]

GTerm(L, p) ==
    LET f == GFactor(L, p)
    IN  IF f.ok THEN GTermRest(L, f.pos, f.tree, f.unary) ELSE NoParse

GExprRest(L, p, left, unary) ==
    IF p <= Len(L) /\ L[p].kind \in {"+", "-"}
    THEN LET t == GTerm(L, p + 1)
         IN  IF t.ok
             THEN GExprRest(L, t.pos,
                            OperatorNode(IF L[p].kind = "+" THEN "Add" ELSE "Sub",
                                         left, t.tree),
                            unary \/ t.unary)
             ELSE NoParse
    ELSE [ok |-> TRUE, tree |-> left, pos |-> p, unary |-> unary]

GExpr(L, p) ==
    LET t == GTerm(L, p)
    IN  IF t.ok THEN GExprRest(L, t.pos, t.tree, t.unary) ELSE NoParse

\* the parse of a whole text: ok exactly when the grammar derives it
GParse(s) ==
    LET L == Lex(s, 1)
        e == GExpr(L, 1)
    IN  IF e.ok /\ e.pos = Len(L) + 1 THEN e ELSE NoParse

-----------------------------------------------------------------------------
(* Claims *)

RECURSIVE HasVariable(_)
HasVariable(n) ==
    IF n.type = "Variable" THEN TRUE
    ELSE IF n.type = "Number" THEN FALSE
    ELSE HasVariable(n.left) \/ HasVariable(n.right)

IsNumberLeaf(n) == n.type = "Number"

\* C1: for a tree with no Variable node, evaluating the tree and running
\* eval_pre on the stream write_pre serializes from it give the same outcome:
\* the same integer, or a failure on both sides.
C1_RoundTrip ==
    (pc = "decoded" /\ ~HasVariable(tree)) =>
        \/ IsOk(result) /\ IsOk(pre) /\ IsOk(decoded) /\ decoded.value = result.value
        \/ ~IsOk(result) /\ (~IsOk(pre) \/ ~IsOk(decoded))

Text_1_plus_2_times_3 == <<"1", "+", "2", "*", "3">>
Text_paren_1_plus_2_times_3 == <<"(", "1", "+", "2", ")", "*", "3">>

\* C2: for an accepted expression without unary minus the tree parse builds
\* is the tree the grammar groups the text into (* and / bind tighter than
\* + and -, equal precedence groups left to right, a parenthesised
\* subexpression is one operand); "1+2*3" evaluates to 7, "(1+2)*3" to 9.
C2_GroupsAsGrammar ==
    /\ (pc = "parsed" /\ root_ # NullNode /\ GParse(input).ok
        /\ ~GParse(input).unary) => root_ = GParse(input).tree
    /\ (pc = "parsed_evaluated" /\ input = Text_1_plus_2_times_3) => result = Ok(7)
    /\ (pc = "parsed_evaluated" /\ input = Text_paren_1_plus_2_times_3)
           => result = Ok(9)

C2_Witness ==
    /\ pc = "parsed_evaluated"
    /\ input = Text_1_plus_2_times_3
    /\ root_ = OperatorNode("Add", NumberNode(1),
                            OperatorNode("Mult", NumberNode(2), NumberNode(3)))
    /\ result = Ok(7)

\* C3: for an accepted expression, the tree parse builds evaluates to what
\* the grammar's tree evaluates to, a unary minus negating exactly the factor
\* that follows it.  Both trees are evaluated by the checked evaluator of
\* src/AST.cpp, so that only the shape of the tree decides.
C3_UnaryMinusNegatesFactor ==
    (/\ pc = "parsed_evaluated"
     /\ build.get_value = "AST.cpp"
     /\ root_ # NullNode
     /\ GParse(input).ok) =>
        result = get_value(build, GParse(input).tree)

\* the mathematical result of an Add, Sub or Mult node on two values
Exact(type, l, r) ==
    IF type = "Add" THEN l + r ELSE IF type = "Sub" THEN l - r ELSE l * r

OverflowErrors ==
    {"overflow in addition", "overflow in subtraction", "overflow in multiplication"}

\* C4: evaluating an Add, Sub or Mult node over two numbers returns the
\* mathematical result when it fits in int64_t and fails with an overflow
\* error otherwise.
C4_CheckedTreeArithmetic ==
    (/\ pc = "valued"
     /\ tree.type \in {"Add", "Sub", "Mult"}
     /\ IsNumberLeaf(tree.left) /\ IsNumberLeaf(tree.right)) =>
        LET m == Exact(tree.type, tree.left.value, tree.right.value)
        IN  IF Fits(m) THEN result = Ok(m)
            ELSE result.err \in OverflowErrors

\* q is l / r truncated toward zero (r # 0)
IsTruncatedQuotient(q, l, r) ==
    LET rem == l - q * r
    IN  Abs(rem) < Abs(r) /\ (rem = 0 \/ (rem < 0) = (l < 0))

\* C5: evaluating a Div node over two numbers fails with division by zero
\* when the right one is 0, fails with overflow for INT64_MIN / -1, and
\* otherwise returns the quotient truncated toward zero.
C5_CheckedTreeDivision ==
    (/\ pc = "valued"
     /\ tree.type = "Div"
     /\ IsNumberLeaf(tree.left) /\ IsNumberLeaf(tree.right)) =>
        LET l == tree.left.value
            r == tree.right.value
        IN  IF r = 0 THEN result.err = "division by zero"
            ELSE IF l = INT64_MIN /\ r = 0 - 1 THEN result.err = "overflow in division"
            ELSE IsOk(result) /\ IsTruncatedQuotient(result.value, l, r)

\* the checked operation an operator symbol stands for
CheckedOp(symbol, l, r) ==
    IF symbol = "+" THEN checked_add(l, r)
    ELSE IF symbol = "-" THEN checked_sub(l, r)
    ELSE IF symbol = "*" THEN checked_mul(l, r)
    ELSE checked_div(l, r)

\* C6: on a stream that starts with an operator among + - * / and two
\* integer literals, eval_pre returns what the checked arithmetic of the
\* tree evaluator gives for them: the value, or its failure.
C6_EvalPreCheckedArithmetic ==
    pc = "decoded" =>
        LET op == ReadToken(file, 1)
            l == ReadToken(file, op.pos)
            r == ReadToken(file, l.pos)
        IN  (/\ op.ok /\ l.ok /\ r.ok
             /\ op.token \in {<<"+">>, <<"-">>, <<"*">>, <<"/">>}
             /\ IsOk(parse_int64_token(l.token))
             /\ IsOk(parse_int64_token(r.token))) =>
                LET expected == CheckedOp(op.token[1], parse_int64_token(l.token).value,
                                          parse_int64_token(r.token).value)
                IN  decoded.err = expected.err /\ decoded.value = expected.value

\* r is the outcome of a variable under the bindings: the bound value, or
\* a failure when there is no binding
IsLookup(r, name) ==
    IF name \in DOMAIN bindings
    THEN IsOk(r) /\ r.value = bindings[name]
    ELSE ~IsOk(r)

\* the tree of "x+1"
Tree_x_plus_1 == OperatorNode("Add", VariableNode(<<"x">>), NumberNode(1))

\* C7: a Variable leaf evaluates to the value bound to its name, in the tree
\* and in the preorder stream, and fails without a binding; "x+1" gives the
\* bound value plus one.
C7_VariableBindings ==
    /\ (pc \in {"valued", "decoded"} /\ tree.type = "Variable")
           => IsLookup(result, tree.variable_name)
    /\ (pc = "decoded" /\ tree.type = "Variable")
           => IsLookup(decoded, tree.variable_name)
    /\ (pc = "decoded" /\ tree = Tree_x_plus_1) =>
           IF <<"x">> \in DOMAIN bindings
           THEN /\ result = Ok(bindings[<<"x">>] + 1)
                /\ IsOk(decoded) /\ decoded.value = bindings[<<"x">>] + 1
           ELSE ~IsOk(result) /\ ~IsOk(decoded)

SyntaxErrors ==
    {"empty expression", "expression ends with operator",
     "missing operand after unary minus", "missing operand before ')'",
     "missing operand", "missing operator between operands",
     "invalid character in expression", "mismatched '('", "mismatched ')'",
     "missing operator", "invalid expression", "unexpected token"}

\* every INTEGER of the text is within int64_t
LiteralsFit(s) ==
    \A k \in 1..Len(Lex(s, 1)) :
        Lex(s, 1)[k].kind = "INTEGER" => IntegerValue(Lex(s, 1)[k].text) <= INT64_MAX

MalformedExamples ==
    {<<"1", "+">>, <<"(", ")">>, <<"1", " ", "2">>, <<"*", "1">>, <<"(", "1">>,
     <<"1", ")">>}

\* C8 as stated: parse rejects every text the grammar does not derive: the
\* call fails with a syntax error and leaves no root; unbalanced parentheses
\* that tokenize lets through fail in the tree builder; the six malformed
\* examples fail.
C8_RejectsUnderivable_AsStated ==
    pc = "parsed" =>
        /\ ~GParse(input).ok =>
               /\ root_ = NullNode
               /\ result.err \in SyntaxErrors
               /\ tokenize(input).err = NoError =>
                      result.err \in {"mismatched '('", "mismatched ')'"}
        /\ input \in MalformedExamples =>
               root_ = NullNode /\ result.err \in SyntaxErrors

\* C8, amended: parse rejects every text the grammar does not derive: the
\* call fails and leaves no root; the failure is a syntax error when every
\* integer literal of the text is within int64_t, and a syntax error or the
\* literal-overflow error when one is not; unbalanced parentheses that
\* tokenize lets through fail in the tree builder; the six malformed
\* examples fail with a syntax error.
C8_RejectsUnderivable ==
    pc = "parsed" =>
        /\ ~GParse(input).ok =>
               /\ root_ = NullNode
               /\ result.err \in SyntaxErrors \cup {"integer literal overflow"}
               /\ LiteralsFit(input) => result.err \in SyntaxErrors
               /\ tokenize(input).err = NoError =>
                      result.err \in {"mismatched '('", "mismatched ')'"}
        /\ input \in MalformedExamples =>
               root_ = NullNode /\ result.err \in SyntaxErrors

C8_Witness ==
    /\ pc = "parsed"
    /\ input = <<"(", "1">>
    /\ ~GParse(input).ok
    /\ tokenize(input).err = NoError
    /\ result.err = "mismatched '('"
    /\ root_ = NullNode

\* a token is left in the text at or after pos
TokenRemains(buf, pos) == \E k \in pos..Len(buf) : ~isspace(buf[k])

\* C9: when a token remains in the stream after the outermost eval_pre
\* returns, eval mode fails with the trailing-garbage error and prints no
\* result.
C9_TrailingTokensRejected ==
    (/\ pc = "ran"
     /\ IsOk(eval_pre(build, file, 1, bindings))
     /\ TokenRemains(file, eval_pre(build, file, 1, bindings).pos)) =>
        /\ run.exit = "1"
        /\ run.err = "trailing garbage in preorder"
        /\ run.stdout = <<>>

C9_Witness ==
    /\ pc = "ran"
    /\ file = Join(<<<<"+">>, <<"1">>, <<"2">>, <<"3">>>>) \o <<"\n">>
    /\ IsOk(eval_pre(build, file, 1, bindings))
    /\ run.exit = "1"
    /\ run.err = "trailing garbage in preorder"
    /\ run.stdout = <<>>

\* the preorder text of a tree: a number as its decimal value, a variable as
\* its name, an operator node as its symbol, then its left subtree, then its
\* right subtree, every token followed by a space
RECURSIVE Preorder(_)
Preorder(n) ==
    IF n.type = "Number" THEN ToDecimal(n.value) \o <<" ">>
    ELSE IF n.type = "Variable" THEN n.variable_name \o <<" ">>
    ELSE <<(IF n.type = "Add" THEN "+" ELSE IF n.type = "Sub" THEN "-"
            ELSE IF n.type = "Mult" THEN "*" ELSE "/"), " ">>
         \o Preorder(n.left) \o Preorder(n.right)

\* C10: write_pre serializes every tree in preorder, for each of the four
\* operator kinds, with no parentheses.
C10_WritePrePreorder ==
    pc = "written" => IsOk(pre) /\ pre.out = Preorder(tree)

\* a non-empty run of digits
IsDigitRun(text) == text # <<>> /\ \A k \in 1..Len(text) : isdigit(text[k])

\* the number a run of digits denotes
RECURSIVE DecimalValue(_)
DecimalValue(text) ==
    IF text = <<>> THEN 0
    ELSE DecimalValue(SubSeq(text, 1, Len(text) - 1)) * 10 + DigitValue(text[Len(text)])

EndToken == Token("End", 0, <<>>)

\* the text after a leading '-' and the whitespace that follows it
AfterMinus(text) == SubSeq(text, SkipSpace(text, 2), Len(text))

\* C11: a plain digit run tokenizes to one Number token with its value when
\* the value is at most INT64_MAX and fails with the literal-overflow error
\* otherwise; a unary minus before a digit run (whitespace allowed between)
\* gives one Number token with the negated value for magnitudes up to
\* INT64_MAX + 1, exactly INT64_MIN for that magnitude, and the
\* literal-overflow error for any larger one.
C11_LiteralRange ==
    pc = "tokenized" =>
        /\ IsDigitRun(input) =>
               IF DecimalValue(input) > INT64_MAX
               THEN result.err = "integer literal overflow"
               ELSE /\ result.err = NoError
                    /\ tokens_ = <<Token("Number", DecimalValue(input), <<>>), EndToken>>
        /\ (input # <<>> /\ input[1] = "-" /\ IsDigitRun(AfterMinus(input))) =>
               LET magnitude == DecimalValue(AfterMinus(input))
               IN  IF magnitude > INT64_MAX + 1
                   THEN result.err = "integer literal overflow"
                   ELSE /\ result.err = NoError
                        /\ tokens_ = <<Token("Number", 0 - magnitude, <<>>), EndToken>>
                        /\ magnitude = INT64_MAX + 1 => tokens_[1].value = INT64_MIN

C11_Witness ==
    /\ pc = "tokenized"
    /\ input = <<"-", " ">> \o NatToDecimal(INT64_MAX + 1)
    /\ result.err = NoError
    /\ tokens_ = <<Token("Number", INT64_MIN, <<>>), EndToken>>

\* the last call of the history, and the one before it
LastCall == history[Len(history)]
PreviousCall == history[Len(history) - 1]

\* C12: after a parse call that fails the AST object holds no root, whatever
\* it held before, and an evaluate that follows fails with the empty-tree
\* error.
C12_FailedParseLeavesNoRoot ==
    /\ (Len(history) >= 1 /\ LastCall.call = "parse" /\ LastCall.err # NoError)
           => root_ = NullNode
    /\ (/\ Len(history) >= 2
        /\ LastCall.call = "evaluate"
        /\ PreviousCall.call = "parse" /\ PreviousCall.err # NoError)
           => result.err = "tree is empty"

C12_Witness ==
    /\ Len(history) = 3
    /\ history[1].call = "parse" /\ history[1].err = NoError
    /\ history[2].call = "parse" /\ history[2].err # NoError
    /\ history[3].call = "evaluate" /\ history[3].err = "tree is empty"
    /\ root_ = NullNode

\* an AST object on which nothing has been called
FreshAST == AST(NullNode, <<>>)

\* C13: whatever calls the AST object has been through, parse(e) fails or
\* succeeds as it does on a fresh object, and the evaluate that follows it
\* has the outcome it has on a fresh object.
C13_HistoryIndependent ==
    /\ (Len(history) >= 1 /\ LastCall.call = "parse") =>
           /\ LastCall.err = parse(FreshAST, LastCall.input).err
           /\ root_ = parse(FreshAST, LastCall.input).root
    /\ (Len(history) >= 2 /\ LastCall.call = "evaluate"
        /\ PreviousCall.call = "parse") =>
           LET fresh == evaluate(build, parse(FreshAST, PreviousCall.input).root)
           IN  LastCall.err = fresh.err /\ LastCall.value = fresh.value

C13_Witness ==
    /\ Len(history) = 4
    /\ history[1].call = "tokenize" /\ history[1].err # NoError
    /\ history[2].call = "add_tokens_to_tree" /\ history[2].err = NoError
    /\ history[3].call = "parse" /\ history[3].input = <<"2", "*", "3">>
    /\ history[4].call = "evaluate" /\ history[4].err = NoError
    /\ history[4].value = 6

\* the lines of a text, split at '\n'
RECURSIVE LinesOf(_)
LinesOf(text) ==
    IF text = <<>> THEN <<>>
    ELSE LET nl == CHOOSE k \in 1..(Len(text) + 1) :
                       /\ k = Len(text) + 1 \/ text[k] = "\n"
                       /\ \A j \in 1..(k - 1) : text[j] # "\n"
         IN  <<SubSeq(text, 1, nl - 1)>> \o LinesOf(SubSeq(text, nl + 1, Len(text)))

\* text without the whitespace at its two ends
RECURSIVE Stripped(_)
Stripped(text) ==
    IF text = <<>> THEN text
    ELSE IF isspace(text[1]) THEN Stripped(Tail(text))
    ELSE IF isspace(text[Len(text)]) THEN Stripped(SubSeq(text, 1, Len(text) - 1))
    ELSE text

EqualSigns(text) == {k \in 1..Len(text) : text[k] = "="}

\* a decimal int64_t literal: digits, with an optional minus sign, in range
IsInt64Literal(text) ==
    IF text # <<>> /\ text[1] = "-"
    THEN IsDigitRun(Tail(text)) /\ DecimalValue(Tail(text)) <= INT64_MAX + 1
    ELSE IsDigitRun(text) /\ DecimalValue(text) <= INT64_MAX

\* what is wrong with a line of a variable-values file
LineDefect(line) ==
    LET text == Stripped(line)
        eq == CHOOSE k \in EqualSigns(text) : TRUE
        name == Stripped(SubSeq(text, 1, eq - 1))
        value == Stripped(SubSeq(text, eq + 1, Len(text)))
    IN  IF text = <<>> THEN "blank"
        ELSE IF Cardinality(EqualSigns(text)) # 1 THEN "assignment"
        ELSE IF name = <<>> \/ \E k \in 1..Len(name) : ~islower(name[k]) THEN "name"
        ELSE IF ~IsInt64Literal(value) THEN "value"
        ELSE "good"

BadLines(text) ==
    {k \in 1..Len(LinesOf(text)) :
        LineDefect(LinesOf(text)[k]) \in {"assignment", "name", "value"}}

FirstBadLine(text) == CHOOSE k \in BadLines(text) : \A j \in BadLines(text) : k <= j

\* C14: when a variable-values file has a bad line (zero or several '=', a
\* name that is not lowercase letters, a value that is not an int64 literal),
\* the parser fails with an error that names the number of the first bad
\* line, blank lines counted; a file without a bad line is read without
\* error.
C14_BadLineNumberReported ==
    pc = "bindings_parsed" =>
        IF BadLines(file) = {}
        THEN result.err = NoError
        ELSE result.err # NoError /\ result.value = FirstBadLine(file)

OperandStartTypes == {"Number", "Variable", "LParen"}
BinaryOperatorTypes == {"Plus", "Minus", "Mult", "Div"}

\* the shape of a token sequence: it starts with an operand or '(', an
\* operand or '(' follows every '(' and every binary operator, a binary
\* operator, ')' or End follows every operand and every ')', and End is the
\* last token and no other
WellSequenced(tokens) ==
    /\ tokens # <<>>
    /\ tokens[1].type \in OperandStartTypes
    /\ \A k \in 1..(Len(tokens) - 1) :
        /\ tokens[k].type \in {"LParen"} \cup BinaryOperatorTypes
               => tokens[k + 1].type \in OperandStartTypes
        /\ tokens[k].type \in {"Number", "Variable", "RParen"}
               => tokens[k + 1].type \in BinaryOperatorTypes \cup {"RParen", "End"}
    /\ \A k \in 1..Len(tokens) : tokens[k].type = "End" <=> k = Len(tokens)

IsBlank(text) == \A k \in 1..Len(text) : isspace(text[k])

\* position of the last character of the text that is not whitespace
LastMeaningful(text) ==
    CHOOSE k \in 1..Len(text) :
        ~isspace(text[k]) /\ \A j \in (k + 1)..Len(text) : isspace(text[j])

\* the text up to its last meaningful character, with an operand after it
Completed(text) == SubSeq(text, 1, LastMeaningful(text)) \o <<"1">>

\* the text ends where an operand is awaited: it ends with an operator or
\* '(' and one more operand makes it a text that tokenizes
EndsAwaitingOperand(text) ==
    /\ ~IsBlank(text)
    /\ text[LastMeaningful(text)] \in {"+", "-", "*", "/", "("}
    /\ tokenize(Completed(text)).err = NoError

\* the text ends with a unary minus: the operand put after it becomes the
\* negative literal
EndsWithUnaryMinus(text) ==
    /\ EndsAwaitingOperand(text)
    /\ text[LastMeaningful(text)] = "-"
    /\ LET tokens == tokenize(Completed(text)).tokens
       IN  tokens[Len(tokens) - 1] = Token("Number", 0 - 1, <<>>)

\* C15 as stated: every token sequence tokenize returns is well sequenced,
\* blank input fails as an empty expression, and every input that ends
\* while an operand is awaited fails as a trailing operator.
C15_ScanState_AsStated ==
    pc = "tokenized" =>
        /\ result.err = NoError => WellSequenced(tokens_)
        /\ IsBlank(input) => result.err = "empty expression"
        /\ EndsAwaitingOperand(input) => result.err = "expression ends with operator"

\* C15, amended: every token sequence tokenize returns is well sequenced,
\* blank input fails as an empty expression, and an input that ends while an
\* operand is awaited fails as a trailing operator unless it ends with a
\* unary minus, which fails as a missing operand after unary minus.
C15_ScanState ==
    pc = "tokenized" =>
        /\ result.err = NoError => WellSequenced(tokens_)
        /\ IsBlank(input) => result.err = "empty expression"
        /\ EndsAwaitingOperand(input) =>
               IF EndsWithUnaryMinus(input)
               THEN result.err = "missing operand after unary minus"
               ELSE result.err = "expression ends with operator"

C15_Witness ==
    /\ pc = "tokenized"
    /\ input = <<"-", "(", "x", ")">>
    /\ result.err = NoError
    /\ Len(tokens_) = 6
    /\ tokens_[2].type = "Mult" /\ tokens_[3].type = "LParen"
    /\ WellSequenced(tokens_)

\* every operator node below n has two children and every leaf has none
RECURSIVE WellShaped(_)
WellShaped(n) ==
    IF n = NullNode THEN FALSE
    ELSE IF n.type \in {"Number", "Variable"}
    THEN n.left = NullNode /\ n.right = NullNode
    ELSE /\ n.type \in Operators
         /\ WellShaped(n.left)
         /\ WellShaped(n.right)

\* C16: after a successful parse every operator node of the tree has two
\* non-null children and every Number or Variable node has none, and
\* evaluating the tree never fails with the malformed-AST error.
C16_TreeShape ==
    /\ (pc = "parsed" /\ result.err = NoError) => WellShaped(root_)
    /\ (pc = "parsed_evaluated" /\ root_ # NullNode) =>
           WellShaped(root_) /\ result.err # "malformed AST"

C16_Witness ==
    /\ pc = "parsed_evaluated"
    /\ input = Text_paren_1_plus_2_times_3
    /\ root_ = OperatorNode("Mult",
                            OperatorNode("Add", NumberNode(1), NumberNode(2)),
                            NumberNode(3))
    /\ WellShaped(root_)
    /\ result = Ok(9)

\* C17: a tokenize that fails leaves nothing later calls can use: tokens_
\* holds no token of the rejected input, add_tokens_to_tree after it builds
\* no root, and evaluate after that returns no value.
C17_FailedTokenizeLeavesNothing ==
    /\ (pc = "tokenized" /\ result.err # NoError) => tokens_ = <<>>
    /\ (pc = "built" /\ tokenize(input).err # NoError) => root_ = NullNode
    /\ (pc = "built_evaluated" /\ tokenize(input).err # NoError) => ~IsOk(result)

\* the whitespace-separated words of a text
RECURSIVE Words(_)
Words(text) ==
    IF IsBlank(text) THEN <<>>
    ELSE LET start == CHOOSE k \in 1..Len(text) :
                          ~isspace(text[k]) /\ \A j \in 1..(k - 1) : isspace(text[j])
             end == CHOOSE k \in start..Len(text) :
                        /\ \A j \in start..k : ~isspace(text[j])
                        /\ k = Len(text) \/ isspace(text[k + 1])
         IN  <<SubSeq(text, start, end)>> \o Words(SubSeq(text, end + 1, Len(text)))

OperatorWords == {<<"+">>, <<"-">>, <<"*">>, <<"/">>}

\* index of the word after the preorder subtree that starts at word k: an
\* operator word is followed by two subtrees, any other word is a leaf;
\* 0 when the words end before the subtree is complete
RECURSIVE SubtreeEnd(_, _)
SubtreeEnd(words, k) ==
    IF k > Len(words) THEN 0
    ELSE IF words[k] \in OperatorWords
    THEN LET left == SubtreeEnd(words, k + 1)
         IN  IF left = 0 THEN 0 ELSE SubtreeEnd(words, left)
    ELSE k + 1

\* a word eval_pre can evaluate as a leaf: an int64_t literal or a bound name
IsLeafWord(word) ==
    \/ IsInt64Literal(word)
    \/ (\A k \in 1..Len(word) : islower(word[k])) /\ word \in DOMAIN bindings

\* the failures of the arithmetic itself
ArithmeticFailures ==
    OverflowErrors \cup {"overflow in division", "division by zero", Trap}

\* C18: on a stream that starts with a well-formed preorder sequence of
\* operators and evaluable leaves, eval_pre reads the tokens of that
\* sequence: it does not fail on a token or on the end of the stream, and
\* when it returns the stream holds exactly the words after the sequence.
C18_ConsumesOneSubtree ==
    pc = "decoded" =>
        LET words == Words(file)
            end == SubtreeEnd(words, 1)
        IN  (/\ end # 0
             /\ \A k \in 1..(end - 1) :
                    words[k] \in OperatorWords \/ IsLeafWord(words[k])) =>
                /\ decoded.err \in {NoError} \cup ArithmeticFailures
                /\ IsOk(decoded) =>
                       Words(SubSeq(file, decoded.pos, Len(file)))
                           = SubSeq(words, end, Len(words))

\* C19: on a stream of operators and evaluable leaves that ends before every
\* operator has its two operand subtrees (the empty stream included),
\* eval_pre fails with the bad-preorder error unless the arithmetic failed
\* first, and eval mode prints no result and exits with 1.
C19_TruncatedStreamRejected ==
    LET words == Words(file)
        truncated ==
            /\ SubtreeEnd(words, 1) = 0
            /\ \A k \in 1..Len(words) :
                   words[k] \in OperatorWords \/ IsLeafWord(words[k])
    IN  /\ (pc = "decoded" /\ truncated) =>
               decoded.err \in {"bad preorder"} \cup ArithmeticFailures
        /\ (pc = "ran" /\ truncated) =>
               /\ run.err \in {"bad preorder"} \cup ArithmeticFailures
               /\ run.stdout = <<>>
               /\ run.err # Trap => run.exit = "1"

\* the binary operators on an operator stack
BinaryOperatorsOn(operators) ==
    Cardinality({k \in 1..Len(operators) : operators[k] \in BinaryOperatorTypes})

\* the token the loop consumed last was an operand or ')'
AfterOperand ==
    /\ token_index > 1
    /\ tokens_[token_index - 1].type \in {"Number", "Variable", "RParen"}

\* C20: on a token sequence that tokenize returned successfully the tree
\* builder fails only with a mismatched '(' or ')' error and otherwise
\* leaves the root that add_tokens_to_tree gives; at every step of its loop
\* the value stack holds one node per binary operator on the operator
\* stack, and one more when the last token consumed was an operand or ')'.
C20_BuilderFailsOnlyOnParens ==
    tokenize(input).err = NoError =>
        /\ pc = "failed" => result.err \in {"mismatched '('", "mismatched ')'"}
        /\ pc = "done" =>
               /\ root_ # NullNode
               /\ root_ = add_tokens_to_tree(tokens_).root
        /\ pc \in {"loop", "drain"} =>
               Len(build_value_stack) =
                   BinaryOperatorsOn(build_operator_stack)
                       + (IF AfterOperand THEN 1 ELSE 0)

C20_Witness ==
    /\ pc = "drain"
    /\ input = Text_1_plus_2_times_3
    /\ tokenize(input).err = NoError
    /\ build_operator_stack = <<"Plus", "Mult">>
    /\ Len(build_value_stack) = 3

=============================================================================
